---- MODULE Spec2Model ----
(***************************************************************************)
(* Model of the browser-esbuild options normalizer                         *)
(* (packages/angular_devkit/build_angular/src/builders/browser-esbuild/    *)
(* options.ts): normalizeOptions and findTailwindConfigurationFile.        *)
(*                                                                         *)
(* A path string is a record [abs, segs]: abs tells whether the string     *)
(* starts with '/', segs are its '/'-separated segments as written (so     *)
(* './a.ts' and 'a.ts' are different strings).  The empty string is        *)
(* [abs |-> FALSE, segs |-> <<>>].  Trailing and doubled slashes are not   *)
(* represented.                                                            *)
(*                                                                         *)
(* An optional value is a sequence of length at most one: Undefined is     *)
(* <<>> and a present value v is <<v>>.                                    *)
(***************************************************************************)
EXTENDS Naturals, Sequences, FiniteSets

VARIABLES
    fs,              \* the files that exist (what fs.existsSync answers)
    resolveOutcome,  \* what createRequire(projectRoot).resolve('tailwindcss') does
    pc,              \* per invocation: "idle", "fetching", "done", "failed"
    context,         \* per invocation: the BuilderContext it was given
    options,         \* per invocation: the raw options it was given
    returned,        \* per invocation: the resolved value of the promise, if any
    thrown,          \* per invocation: the rejection of the promise, if any
    warnings,        \* per invocation: context.logger.warn calls, in order
    existsSyncCalls, \* per invocation: fs.existsSync arguments, in order
    resolveCalls,    \* per invocation: number of resolver.resolve calls
    tailwindConfigurationPath \* per invocation: the local of line 106

vars == <<fs, resolveOutcome, pc, context, options, returned, thrown,
          warnings, existsSyncCalls, resolveCalls, tailwindConfigurationPath>>

Invocations == {"a", "b"}

\* ------------------------------------------------------------------ values

Undefined == <<>>

Some(v) == <<v>>

IsDefined(o) == o # Undefined

Value(o) == o[1]

Rel(segs) == [abs |-> FALSE, segs |-> segs]

Abs(segs) == [abs |-> TRUE, segs |-> segs]

EmptyString == Rel(<<>>)

\* JavaScript truthiness of a string | undefined
Truthy(o) == IsDefined(o) /\ Value(o) # EmptyString

Last(s) == s[Len(s)]

Front(s) == SubSeq(s, 1, Len(s) - 1)

\* ------------------------------------------------------------- node:path

RECURSIVE normalizeString(_, _, _)
normalizeString(segs, acc, allowAboveRoot) ==
    IF segs = <<>> THEN acc
    ELSE LET s == Head(segs)
             rest == Tail(segs)
         IN  IF s = "." \/ s = ""
             THEN normalizeString(rest, acc, allowAboveRoot)
             ELSE IF s = ".."
             THEN IF acc # <<>> /\ Last(acc) # ".."
                  THEN normalizeString(rest, Front(acc), allowAboveRoot)
                  ELSE IF allowAboveRoot
                  THEN normalizeString(rest, Append(acc, ".."), allowAboveRoot)
                  ELSE normalizeString(rest, acc, allowAboveRoot)
             ELSE normalizeString(rest, Append(acc, s), allowAboveRoot)

normalize(p) ==
    LET segs == normalizeString(p.segs, <<>>, ~p.abs)
    IN  IF ~p.abs /\ segs = <<>> THEN Rel(<<".">>) ELSE [abs |-> p.abs, segs |-> segs]

join(a, b) ==
    IF a = EmptyString /\ b = EmptyString THEN Rel(<<".">>)
    ELSE IF a = EmptyString THEN normalize(b)
    ELSE IF b = EmptyString THEN normalize(a)
    ELSE normalize([abs |-> a.abs, segs |-> a.segs \o b.segs])

cwd == Abs(<<"cwd">>)

resolve(p) == IF p.abs THEN normalize(p) ELSE join(cwd, p)

RECURSIVE commonPrefixLength(_, _)
commonPrefixLength(s, t) ==
    IF s = <<>> \/ t = <<>> \/ Head(s) # Head(t) THEN 0
    ELSE 1 + commonPrefixLength(Tail(s), Tail(t))

relative(from, to) ==
    LET f == resolve(from).segs
        t == resolve(to).segs
        k == commonPrefixLength(f, t)
    IN  Rel([n \in 1..(Len(f) - k) |-> ".."] \o SubSeq(t, k + 1, Len(t)))

basename(p) == IF p.segs = <<>> THEN EmptyString ELSE Rel(<<Last(p.segs)>>)

isAbsolute(p) == p.abs

\* ---------------------------------------------------------- collaborators

\* utils/normalize-polyfills: expands the polyfills option into an ordered
\* list of absolute file paths, one per entry.
normalizePolyfills(polyfills, root) ==
    [n \in 1..Len(polyfills) |-> join(root, polyfills[n])]

\* utils/webpack-browser-config: the index option is a string or an
\* object {input, output?}.
getIndexInputFile(index) == index.input

getIndexOutputFile(index) ==
    IF index.form = "string" THEN basename(index.input)
    ELSE IF Truthy(index.output) THEN Value(index.output)
    ELSE Rel(<<"index.html">>)

\* createRequire(projectRoot).resolve('tailwindcss'): a location, or a throw.
resolvedPackage(projectRoot) ==
    join(projectRoot, Rel(<<"node_modules", "tailwindcss", "lib", "index.js">>))

\* ------------------------------------------- findTailwindConfigurationFile

tailwindConfigFiles == <<Rel(<<"tailwind.config.js">>), Rel(<<"tailwind.config.cjs">>)>>

\* Mutant: the workspace root is searched before the project root.
tailwindCandidatesWorkspaceFirst(workspaceRoot, projectRoot) ==
    LET basePaths == <<workspaceRoot, projectRoot>>
    IN  [n \in 1..(Len(basePaths) * Len(tailwindConfigFiles)) |->
            join(basePaths[((n - 1) \div Len(tailwindConfigFiles)) + 1],
                 tailwindConfigFiles[((n - 1) % Len(tailwindConfigFiles)) + 1])]

\* The full paths in the order the two nested loops visit them.
tailwindCandidates(workspaceRoot, projectRoot) ==
    LET basePaths == <<projectRoot, workspaceRoot>>
    IN  [n \in 1..(Len(basePaths) * Len(tailwindConfigFiles)) |->
            join(basePaths[((n - 1) \div Len(tailwindConfigFiles)) + 1],
                 tailwindConfigFiles[((n - 1) % Len(tailwindConfigFiles)) + 1])]

existsSync(fullPath) == fullPath \in fs

RECURSIVE firstExisting(_, _)
firstExisting(candidates, n) ==
    IF n > Len(candidates) THEN 0
    ELSE IF existsSync(candidates[n]) THEN n
    ELSE firstExisting(candidates, n + 1)

\* The index of the candidate returned, 0 when the loops run to the end.
tailwindHit(workspaceRoot, projectRoot) ==
    firstExisting(tailwindCandidates(workspaceRoot, projectRoot), 1)

findTailwindConfigurationFile(workspaceRoot, projectRoot) ==
    LET hit == tailwindHit(workspaceRoot, projectRoot)
    IN  IF hit = 0 THEN Undefined
        ELSE Some(tailwindCandidates(workspaceRoot, projectRoot)[hit])

\* The existsSync calls the search makes: it stops at the first hit.
tailwindProbes(workspaceRoot, projectRoot) ==
    LET candidates == tailwindCandidates(workspaceRoot, projectRoot)
        hit == tailwindHit(workspaceRoot, projectRoot)
    IN  SubSeq(candidates, 1, IF hit = 0 THEN Len(candidates) ELSE hit)

\* ------------------------------------------------------- normalizeOptions

projectRootOf(workspaceRoot, projectMetadata) ==
    join(workspaceRoot,
         IF IsDefined(projectMetadata.root) THEN Value(projectMetadata.root)
         ELSE EmptyString)

projectSourceRootOf(workspaceRoot, projectMetadata) ==
    join(workspaceRoot,
         IF IsDefined(projectMetadata.sourceRoot) THEN Value(projectMetadata.sourceRoot)
         ELSE Rel(<<"src">>))

\* Mutant: options.main is used as given.
mainEntryPointUnjoined(workspaceRoot, opts) == opts.main

mainEntryPointOf(workspaceRoot, opts) == join(workspaceRoot, opts.main)

\* const [polyfillsEntryPoint, ...remainingPolyfills] = normalizePolyfills(...)
polyfillsEntryPointOf(polyfillFiles) ==
    IF Len(polyfillFiles) >= 1 THEN Some(polyfillFiles[1]) ELSE Undefined

remainingPolyfillsOf(polyfillFiles) ==
    IF Len(polyfillFiles) >= 1 THEN Tail(polyfillFiles) ELSE <<>>

polyfillsWarning ==
    [text |-> "The 'polyfills' option currently does not support multiple entries by this experimental builder. The first entry will be used.",
     arg |-> Undefined]

\* Mutant: the warning needs more than one remaining entry.
polyfillsWarningsOffByOne(remainingPolyfills) ==
    IF Len(remainingPolyfills) > 1 THEN <<polyfillsWarning>> ELSE <<>>

polyfillsWarnings(remainingPolyfills) ==
    IF Len(remainingPolyfills) # 0 THEN <<polyfillsWarning>> ELSE <<>>

tsconfigOf(workspaceRoot, opts) == join(workspaceRoot, opts.tsConfig)

outputPathOf(workspaceRoot, opts) == join(workspaceRoot, opts.outputPath)

nameTemplate == Rel(<<"[name]">>)

hashTemplate == Rel(<<"[name].[hash]">>)

\* Mutant: the resources path is joined only in front of a hashed template.
outputNamesOfPrefixHashedOnly(opts) ==
    LET bundles == IF opts.outputHashing = Some("all") \/ opts.outputHashing = Some("bundles")
                   THEN hashTemplate ELSE nameTemplate
        media == IF opts.outputHashing = Some("all") \/ opts.outputHashing = Some("media")
                 THEN hashTemplate ELSE nameTemplate
    IN  [bundles |-> bundles,
         media |-> IF Truthy(opts.resourcesOutputPath) /\ media = hashTemplate
                   THEN join(Value(opts.resourcesOutputPath), media)
                   ELSE media]

outputNamesOf(opts) ==
    LET bundles == IF opts.outputHashing = Some("all") \/ opts.outputHashing = Some("bundles")
                   THEN hashTemplate ELSE nameTemplate
        media == IF opts.outputHashing = Some("all") \/ opts.outputHashing = Some("media")
                 THEN hashTemplate ELSE nameTemplate
    IN  [bundles |-> bundles,
         media |-> IF Truthy(opts.resourcesOutputPath)
                   THEN join(Value(opts.resourcesOutputPath), media)
                   ELSE media]

\* The loop of lines 86-92 over the first n replacements, from accumulator acc.
RECURSIVE assignReplacements(_, _, _, _)
assignReplacements(workspaceRoot, list, n, acc) ==
    IF n > Len(list) THEN acc
    ELSE LET key == join(workspaceRoot, list[n].replace)
             val == join(workspaceRoot, list[n].with)
             map == IF IsDefined(acc) THEN Value(acc) ELSE <<>>
         IN  assignReplacements(workspaceRoot, list, n + 1,
                 Some([k \in (DOMAIN map) \cup {key} |->
                          IF k = key THEN val ELSE map[k]]))

\* Mutant: the mapping is created before the loop, so an empty list gives {}.
fileReplacementsOfEagerMap(workspaceRoot, opts) ==
    IF IsDefined(opts.fileReplacements)
    THEN assignReplacements(workspaceRoot, Value(opts.fileReplacements), 1, Some(<<>>))
    ELSE Undefined

fileReplacementsOf(workspaceRoot, opts) ==
    IF IsDefined(opts.fileReplacements)
    THEN assignReplacements(workspaceRoot, Value(opts.fileReplacements), 1, Undefined)
    ELSE Undefined

\* Mutant: only "module not found" is caught, anything else is rethrown.
caughtModuleNotFoundOnly(error) == error = "MODULE_NOT_FOUND"

\* The binding-less catch clause of line 114 catches every error.
caught(error) == TRUE

\* Mutant: the warning names the absolute path.
tailwindWarningAbsolutePath(workspaceRoot, configPath) ==
    [text |-> "Tailwind CSS configuration file found (${relativeTailwindConfigPath}) but the 'tailwindcss' package is not installed. To enable Tailwind CSS, please install the 'tailwindcss' package.",
     arg |-> Some(configPath)]

tailwindWarning(workspaceRoot, configPath) ==
    [text |-> "Tailwind CSS configuration file found (${relativeTailwindConfigPath}) but the 'tailwindcss' package is not installed. To enable Tailwind CSS, please install the 'tailwindcss' package.",
     arg |-> Some(relative(workspaceRoot, configPath))]

\* Lines 105-122: the descriptor, the warnings, and an error that escapes.
tailwindOf(workspaceRoot, projectRoot) ==
    LET configPath == findTailwindConfigurationFile(workspaceRoot, projectRoot)
    IN  IF ~Truthy(configPath)
        THEN [configuration |-> Undefined, warnings |-> <<>>, resolves |-> 0,
              escaped |-> Undefined]
        ELSE IF resolveOutcome = "resolved"
        THEN [configuration |-> Some([file |-> Value(configPath),
                                      package |-> resolvedPackage(projectRoot)]),
              warnings |-> <<>>, resolves |-> 1, escaped |-> Undefined]
        ELSE IF caught(resolveOutcome)
        THEN [configuration |-> Undefined,
              warnings |-> <<tailwindWarning(workspaceRoot, Value(configPath))>>,
              resolves |-> 1, escaped |-> Undefined]
        ELSE [configuration |-> Undefined, warnings |-> <<>>, resolves |-> 1,
              escaped |-> Some(resolveOutcome)]

\* Mutant: the explicit path is resolved against the project root.
serviceWorkerOptionsOfProjectRelative(workspaceRoot, projectRoot, opts) ==
    IF opts.serviceWorker = Some(TRUE)
    THEN IF Truthy(opts.ngswConfigPath)
         THEN Some(join(projectRoot, Value(opts.ngswConfigPath)))
         ELSE Some(join(projectRoot, Rel(<<"ngsw-config.json">>)))
    ELSE Undefined

serviceWorkerOptionsOf(workspaceRoot, projectRoot, opts) ==
    IF opts.serviceWorker = Some(TRUE)
    THEN IF Truthy(opts.ngswConfigPath)
         THEN Some(join(workspaceRoot, Value(opts.ngswConfigPath)))
         ELSE Some(join(projectRoot, Rel(<<"ngsw-config.json">>)))
    ELSE Undefined

entryPointsOf(mainEntryPoint, polyfillsEntryPoint) ==
    [name \in {"main"} \cup (IF Truthy(polyfillsEntryPoint) THEN {"polyfills"} ELSE {}) |->
        IF name = "main" THEN mainEntryPoint ELSE Value(polyfillsEntryPoint)]

indexHtmlOptionsOf(workspaceRoot, opts) ==
    IF IsDefined(opts.index)
    THEN Some([input |-> join(workspaceRoot, getIndexInputFile(Value(opts.index))),
               output |-> getIndexOutputFile(Value(opts.index))])
    ELSE Undefined

\* Everything after the await of line 39, run to completion: the value
\* returned or the error thrown, and the calls made on the way.
normalizeAfterFetch(ctx, opts) ==
    LET workspaceRoot == ctx.workspaceRoot
        projectMetadata == ctx.projectMetadata
        projectRoot == projectRootOf(workspaceRoot, projectMetadata)
        polyfillFiles == normalizePolyfills(opts.polyfills, workspaceRoot)
        polyfillsEntryPoint == polyfillsEntryPointOf(polyfillFiles)
        tailwind == tailwindOf(workspaceRoot, projectRoot)
        logged == polyfillsWarnings(remainingPolyfillsOf(polyfillFiles)) \o tailwind.warnings
        probes == tailwindProbes(workspaceRoot, projectRoot)
    IN  IF IsDefined(tailwind.escaped)
        THEN [returned |-> Undefined, thrown |-> tailwind.escaped,
              warnings |-> logged, existsSyncCalls |-> probes,
              resolveCalls |-> tailwind.resolves,
              tailwindConfigurationPath |->
                  findTailwindConfigurationFile(workspaceRoot, projectRoot)]
        ELSE [returned |-> Some(
                  [workspaceRoot |-> workspaceRoot,
                   entryPoints |-> entryPointsOf(mainEntryPointOf(workspaceRoot, opts),
                                                 polyfillsEntryPoint),
                   outputPath |-> outputPathOf(workspaceRoot, opts),
                   tsconfig |-> tsconfigOf(workspaceRoot, opts),
                   projectRoot |-> projectRoot,
                   outputNames |-> outputNamesOf(opts),
                   fileReplacements |-> fileReplacementsOf(workspaceRoot, opts),
                   serviceWorkerOptions |->
                       serviceWorkerOptionsOf(workspaceRoot, projectRoot, opts),
                   indexHtmlOptions |-> indexHtmlOptionsOf(workspaceRoot, opts),
                   tailwindConfiguration |-> tailwind.configuration]),
              thrown |-> Undefined,
              warnings |-> logged, existsSyncCalls |-> probes,
              resolveCalls |-> tailwind.resolves,
              tailwindConfigurationPath |->
                  findTailwindConfigurationFile(workspaceRoot, projectRoot)]

\* ------------------------------------------------------------------ inputs

MaxPolyfills == 2

MaxReplacements == 2

SeqsUpTo(S, n) == UNION {[1..k -> S] : k \in 0..n}

WorkspaceRoots == {Abs(<<"ws">>)}

ProjectRootOptions == {Undefined, Some(Rel(<<"projects", "app">>))}

SourceRootOptions == {Undefined, Some(Rel(<<"projects", "app", "src">>))}

Contexts ==
    [workspaceRoot : WorkspaceRoots,
     metadataFetch : {"resolves"},
     projectMetadata : [root : ProjectRootOptions, sourceRoot : SourceRootOptions]]
    \cup
    [workspaceRoot : WorkspaceRoots,
     metadataFetch : {"rejects"},
     projectMetadata : [root : {Undefined}, sourceRoot : {Undefined}]]

\* Every file findTailwindConfigurationFile can probe under some context.
CandidateFiles ==
    UNION {{tailwindCandidates(c.workspaceRoot,
                               projectRootOf(c.workspaceRoot, c.projectMetadata))[n] :
               n \in 1..4} : c \in Contexts}

ResolveOutcomes == {"resolved", "MODULE_NOT_FOUND", "ERR_INVALID_PACKAGE_CONFIG"}

DefaultOptions ==
    [main |-> Rel(<<"src", "main.ts">>),
     polyfills |-> <<>>,
     tsConfig |-> Rel(<<"tsconfig.app.json">>),
     outputPath |-> Rel(<<"dist", "app">>),
     outputHashing |-> Undefined,
     resourcesOutputPath |-> Undefined,
     fileReplacements |-> Undefined,
     serviceWorker |-> Undefined,
     ngswConfigPath |-> Undefined,
     index |-> Undefined]

PolyfillEntries == {Rel(<<"src", "polyfills.ts">>), Rel(<<"zone.js">>)}

OutputHashings == {Undefined, Some("none"), Some("all"), Some("bundles"), Some("media")}

ResourcesOutputPaths ==
    {Undefined, Some(EmptyString), Some(Rel(<<"assets">>)), Some(Rel(<<".", "media">>))}

Replacements ==
    {[replace |-> Rel(<<"src", "env.ts">>), with |-> Rel(<<"src", "env.prod.ts">>)],
     [replace |-> Rel(<<"src", "env.ts">>), with |-> Rel(<<"src", "env.dev.ts">>)],
     [replace |-> Rel(<<".", "src", "env.ts">>), with |-> Rel(<<"src", "env.stage.ts">>)],
     [replace |-> Rel(<<"src", "b.ts">>), with |-> Rel(<<"src", "env.prod.ts">>)]}

NgswConfigPaths == {Undefined, Some(EmptyString), Some(Rel(<<"config", "ngsw.json">>))}

MainOptions == {Rel(<<"src", "main.ts">>), Rel(<<".", "src", "..", "main.ts">>)}

IndexOptions ==
    {Undefined,
     Some([form |-> "string", input |-> Rel(<<"src", "index.html">>), output |-> Undefined]),
     Some([form |-> "object", input |-> Rel(<<"src", "index.html">>), output |-> Undefined]),
     Some([form |-> "object", input |-> Rel(<<"src", "index.html">>),
           output |-> Some(Rel(<<"home.html">>))])}

\* The raw options tried: each group of related options is varied in full
\* with the other options at their defaults.
Options ==
    {[DefaultOptions EXCEPT !.polyfills = p] : p \in SeqsUpTo(PolyfillEntries, MaxPolyfills)}
    \cup {[DefaultOptions EXCEPT !.outputHashing = h, !.resourcesOutputPath = r] :
             h \in OutputHashings, r \in ResourcesOutputPaths}
    \cup {[DefaultOptions EXCEPT !.fileReplacements = Some(l)] :
             l \in SeqsUpTo(Replacements, MaxReplacements)}
    \cup {[DefaultOptions EXCEPT !.serviceWorker = s, !.ngswConfigPath = n] :
             s \in {Undefined, Some(FALSE), Some(TRUE)}, n \in NgswConfigPaths}
    \cup {[DefaultOptions EXCEPT !.main = m, !.index = x] :
             m \in MainOptions, x \in IndexOptions}
    \cup {[DefaultOptions EXCEPT !.tsConfig = t, !.outputPath = o] :
             t \in {Rel(<<"tsconfig.app.json">>), Rel(<<"projects", "app", "tsconfig.json">>)},
             o \in {Rel(<<"dist", "app">>), Rel(<<"..", "out">>)}}

\* The contexts tried when two invocations interleave.
InterleavedContexts == {c \in Contexts : c.projectMetadata.sourceRoot = Undefined}

\* The raw options tried when two invocations interleave.
InterleavedOptions ==
    {[DefaultOptions EXCEPT !.polyfills = p, !.fileReplacements = f] :
        p \in {<<>>, <<Rel(<<"src", "polyfills.ts">>), Rel(<<"zone.js">>)>>},
        f \in {Undefined,
               Some(<<[replace |-> Rel(<<"src", "env.ts">>),
                       with |-> Rel(<<"src", "env.prod.ts">>)]>>)}}

\* ----------------------------------------------------------------- actions

Init ==
    /\ fs \in SUBSET CandidateFiles
    /\ resolveOutcome \in ResolveOutcomes
    /\ pc = [i \in Invocations |-> "idle"]
    /\ context = [i \in Invocations |-> Undefined]
    /\ options = [i \in Invocations |-> Undefined]
    /\ returned = [i \in Invocations |-> Undefined]
    /\ thrown = [i \in Invocations |-> Undefined]
    /\ warnings = [i \in Invocations |-> <<>>]
    /\ existsSyncCalls = [i \in Invocations |-> <<>>]
    /\ resolveCalls = [i \in Invocations |-> 0]
    /\ tailwindConfigurationPath = [i \in Invocations |-> Undefined]

\* Lines 33-39: the call runs up to the await of getProjectMetadata.
Call(i, contextSet, optionSet) ==
    /\ pc[i] = "idle"
    /\ \E ctx \in contextSet, opts \in optionSet :
          /\ context' = [context EXCEPT ![i] = Some(ctx)]
          /\ options' = [options EXCEPT ![i] = Some(opts)]
    /\ pc' = [pc EXCEPT ![i] = "fetching"]
    /\ UNCHANGED <<fs, resolveOutcome, returned, thrown, warnings,
                   existsSyncCalls, resolveCalls, tailwindConfigurationPath>>

\* Mutant: every invocation logs to one logger.
FetchResolvedSharedLogger(i) ==
    /\ pc[i] = "fetching"
    /\ Value(context[i]).metadataFetch = "resolves"
    /\ LET run == normalizeAfterFetch(Value(context[i]), Value(options[i]))
       IN  /\ pc' = [pc EXCEPT ![i] = IF IsDefined(run.thrown) THEN "failed" ELSE "done"]
           /\ returned' = [returned EXCEPT ![i] = run.returned]
           /\ thrown' = [thrown EXCEPT ![i] = run.thrown]
           /\ warnings' = [j \in Invocations |-> warnings[j] \o run.warnings]
           /\ existsSyncCalls' =
                  [existsSyncCalls EXCEPT ![i] = existsSyncCalls[i] \o run.existsSyncCalls]
           /\ resolveCalls' = [resolveCalls EXCEPT ![i] = resolveCalls[i] + run.resolveCalls]
           /\ tailwindConfigurationPath' =
                  [tailwindConfigurationPath EXCEPT ![i] = run.tailwindConfigurationPath]
    /\ UNCHANGED <<fs, resolveOutcome, context, options>>

\* Lines 39-206: the metadata arrives and the rest runs to completion.
FetchResolved(i) ==
    /\ pc[i] = "fetching"
    /\ Value(context[i]).metadataFetch = "resolves"
    /\ LET run == normalizeAfterFetch(Value(context[i]), Value(options[i]))
       IN  /\ pc' = [pc EXCEPT ![i] = IF IsDefined(run.thrown) THEN "failed" ELSE "done"]
           /\ returned' = [returned EXCEPT ![i] = run.returned]
           /\ thrown' = [thrown EXCEPT ![i] = run.thrown]
           /\ warnings' = [warnings EXCEPT ![i] = warnings[i] \o run.warnings]
           /\ existsSyncCalls' =
                  [existsSyncCalls EXCEPT ![i] = existsSyncCalls[i] \o run.existsSyncCalls]
           /\ resolveCalls' = [resolveCalls EXCEPT ![i] = resolveCalls[i] + run.resolveCalls]
           /\ tailwindConfigurationPath' =
                  [tailwindConfigurationPath EXCEPT ![i] = run.tailwindConfigurationPath]
    /\ UNCHANGED <<fs, resolveOutcome, context, options>>

\* Mutant: a rejected fetch is swallowed and empty metadata is used.
FetchRejectedSwallowed(i) ==
    /\ pc[i] = "fetching"
    /\ Value(context[i]).metadataFetch = "rejects"
    /\ LET run == normalizeAfterFetch(Value(context[i]), Value(options[i]))
       IN  /\ pc' = [pc EXCEPT ![i] = "done"]
           /\ returned' = [returned EXCEPT ![i] = run.returned]
           /\ warnings' = [warnings EXCEPT ![i] = warnings[i] \o run.warnings]
           /\ existsSyncCalls' =
                  [existsSyncCalls EXCEPT ![i] = existsSyncCalls[i] \o run.existsSyncCalls]
           /\ resolveCalls' = [resolveCalls EXCEPT ![i] = resolveCalls[i] + run.resolveCalls]
           /\ tailwindConfigurationPath' =
                  [tailwindConfigurationPath EXCEPT ![i] = run.tailwindConfigurationPath]
    /\ UNCHANGED <<fs, resolveOutcome, context, options, thrown>>

\* Line 39: the awaited promise rejects and the rejection propagates.
FetchRejected(i) ==
    /\ pc[i] = "fetching"
    /\ Value(context[i]).metadataFetch = "rejects"
    /\ pc' = [pc EXCEPT ![i] = "failed"]
    /\ thrown' = [thrown EXCEPT ![i] = Some("getProjectMetadata rejected")]
    /\ UNCHANGED <<fs, resolveOutcome, context, options, returned, warnings,
                   existsSyncCalls, resolveCalls, tailwindConfigurationPath>>

\* One invocation.
Next ==
    \/ Call("a", Contexts, Options)
    \/ FetchResolved("a")
    \/ FetchRejected("a")

Spec == Init /\ [][Next]_vars

\* Two invocations, interleaved at their awaits.
NextInterleaved ==
    \E i \in Invocations :
        \/ Call(i, InterleavedContexts, InterleavedOptions)
        \/ FetchResolved(i)
        \/ FetchRejected(i)

SpecInterleaved == Init /\ [][NextInterleaved]_vars

\* ------------------------------------------------------------------ claims

Finished(i) == pc[i] = "done"

ctxOf(i) == Value(context[i])

optsOf(i) == Value(options[i])

configOf(i) == Value(returned[i])

\* The file called name in directory dir, written out segment by segment.
FileIn(dir, name) == [abs |-> dir.abs, segs |-> Append(dir.segs, name)]

TailwindWarningsOf(i) == {n \in DOMAIN warnings[i] : IsDefined(warnings[i][n].arg)}

PolyfillWarningsOf(i) == {n \in DOMAIN warnings[i] : ~IsDefined(warnings[i][n].arg)}

\* C1: findTailwindConfigurationFile returns the first existing file in the
\* order projectRoot/tailwind.config.js, projectRoot/tailwind.config.cjs,
\* workspaceRoot/tailwind.config.js, workspaceRoot/tailwind.config.cjs, and
\* returns undefined exactly when none of the four exists.
C1_FirstExistingCandidate ==
    \A i \in Invocations : Finished(i) =>
        LET ws == ctxOf(i).workspaceRoot
            pr == configOf(i).projectRoot
            pJs == FileIn(pr, "tailwind.config.js")
            pCjs == FileIn(pr, "tailwind.config.cjs")
            wJs == FileIn(ws, "tailwind.config.js")
            wCjs == FileIn(ws, "tailwind.config.cjs")
        IN  /\ tailwindConfigurationPath[i] =
                  (IF pJs \in fs THEN Some(pJs)
                   ELSE IF pCjs \in fs THEN Some(pCjs)
                   ELSE IF wJs \in fs THEN Some(wJs)
                   ELSE IF wCjs \in fs THEN Some(wCjs)
                   ELSE Undefined)
            /\ (tailwindConfigurationPath[i] = Undefined
                    <=> {pJs, pCjs, wJs, wCjs} \cap fs = {})

\* A project-root .cjs file wins over an existing workspace-root .js file.
C1_Witness ==
    \E i \in Invocations :
        /\ Finished(i)
        /\ configOf(i).projectRoot # ctxOf(i).workspaceRoot
        /\ FileIn(configOf(i).projectRoot, "tailwind.config.js") \notin fs
        /\ FileIn(configOf(i).projectRoot, "tailwind.config.cjs") \in fs
        /\ FileIn(ctxOf(i).workspaceRoot, "tailwind.config.js") \in fs
        /\ tailwindConfigurationPath[i] =
               Some(FileIn(configOf(i).projectRoot, "tailwind.config.cjs"))

\* C2: in every completed run tailwindConfiguration is undefined or has both
\* file (the located path) and package (the resolved location); a located
\* file with an unresolvable package gives undefined and exactly one warning
\* naming the path relative to the workspace root; no located file gives
\* undefined and no such warning.
C2_DescriptorAllOrNothing ==
    \A i \in Invocations : Finished(i) =>
        LET cfg == configOf(i).tailwindConfiguration
            found == tailwindConfigurationPath[i]
            ws == ctxOf(i).workspaceRoot
        IN  /\ IsDefined(cfg) =>
                  /\ IsDefined(found)
                  /\ resolveOutcome = "resolved"
                  /\ Value(cfg).file = Value(found)
                  /\ Value(cfg).package = resolvedPackage(configOf(i).projectRoot)
            /\ (IsDefined(found) /\ resolveOutcome = "resolved") => IsDefined(cfg)
            /\ (IsDefined(found) /\ resolveOutcome # "resolved") =>
                  /\ ~IsDefined(cfg)
                  /\ Cardinality(TailwindWarningsOf(i)) = 1
                  /\ \A n \in TailwindWarningsOf(i) :
                        LET named == Value(warnings[i][n].arg)
                        IN  /\ ~named.abs
                            /\ ws.segs \o named.segs = Value(found).segs
            /\ ~IsDefined(found) =>
                  /\ ~IsDefined(cfg)
                  /\ TailwindWarningsOf(i) = {}

\* A located file in a project directory, the package missing, one warning.
C2_Witness ==
    \E i \in Invocations :
        /\ Finished(i)
        /\ IsDefined(tailwindConfigurationPath[i])
        /\ configOf(i).projectRoot # ctxOf(i).workspaceRoot
        /\ Value(tailwindConfigurationPath[i]).segs # ctxOf(i).workspaceRoot.segs \o <<"tailwind.config.js">>
        /\ resolveOutcome = "MODULE_NOT_FOUND"
        /\ ~IsDefined(configOf(i).tailwindConfiguration)
        /\ Cardinality(TailwindWarningsOf(i)) = 1

\* C3: entryPoints always has 'main' (workspaceRoot joined with options.main);
\* it has 'polyfills' iff the expanded polyfill list is non-empty, and then
\* its value is the first file of the list; the multiple-polyfills warning is
\* emitted once when the list has two or more files and never otherwise.
C3_EntryPointsAndPolyfillWarning ==
    \A i \in Invocations : Finished(i) =>
        LET ws == ctxOf(i).workspaceRoot
            files == normalizePolyfills(optsOf(i).polyfills, ws)
            entryPoints == configOf(i).entryPoints
        IN  /\ "main" \in DOMAIN entryPoints
            /\ entryPoints["main"] = join(ws, optsOf(i).main)
            /\ DOMAIN entryPoints \subseteq {"main", "polyfills"}
            /\ ("polyfills" \in DOMAIN entryPoints) <=> (Len(files) > 0)
            /\ Len(files) > 0 => entryPoints["polyfills"] = files[1]
            /\ Cardinality(PolyfillWarningsOf(i)) = (IF Len(files) >= 2 THEN 1 ELSE 0)
            /\ \A n \in PolyfillWarningsOf(i) : warnings[i][n] = polyfillsWarning

\* Two polyfill files: the first is the entry point and one warning is logged.
C3_Witness ==
    \E i \in Invocations :
        /\ Finished(i)
        /\ Len(optsOf(i).polyfills) = 2
        /\ optsOf(i).polyfills[1] # optsOf(i).polyfills[2]
        /\ configOf(i).entryPoints["polyfills"] =
               join(ctxOf(i).workspaceRoot, optsOf(i).polyfills[1])
        /\ Cardinality(PolyfillWarningsOf(i)) = 1

\* C4: outputNames depends only on outputHashing and resourcesOutputPath:
\* bundles is '[name].[hash]' iff outputHashing is 'all' or 'bundles', else
\* '[name]'; the media base is '[name].[hash]' iff outputHashing is 'all' or
\* 'media', else '[name]'; a non-empty resourcesOutputPath is joined in front
\* of the media template, hashed or not, and never in front of bundles.
C4_OutputNames ==
    \A i \in Invocations : Finished(i) =>
        LET hashing == optsOf(i).outputHashing
            prefix == optsOf(i).resourcesOutputPath
            names == configOf(i).outputNames
            mediaBase == IF hashing \in {Some("all"), Some("media")}
                         THEN Rel(<<"[name].[hash]">>) ELSE Rel(<<"[name]">>)
        IN  /\ names.bundles = (IF hashing \in {Some("all"), Some("bundles")}
                                THEN Rel(<<"[name].[hash]">>) ELSE Rel(<<"[name]">>))
            /\ names.media = (IF IsDefined(prefix) /\ Value(prefix) # EmptyString
                              THEN join(Value(prefix), mediaBase) ELSE mediaBase)

\* Hashing of bundles only with a resources path: media is prefixed, unhashed.
C4_Witness ==
    \E i \in Invocations :
        /\ Finished(i)
        /\ optsOf(i).outputHashing = Some("bundles")
        /\ optsOf(i).resourcesOutputPath = Some(Rel(<<"assets">>))
        /\ configOf(i).outputNames.media = Rel(<<"assets", "[name]">>)
        /\ configOf(i).outputNames.bundles = Rel(<<"[name].[hash]">>)

\* C5 as stated: fileReplacements is undefined when options.fileReplacements
\* is unset or empty; otherwise its keys are exactly join(workspaceRoot,
\* replace) of the supplied pairs, each mapped to join(workspaceRoot, with)
\* of the last supplied pair with that replace path.
C5_LastPairWithThatReplacePath ==
    \A i \in Invocations : Finished(i) =>
        LET ws == ctxOf(i).workspaceRoot
            given == optsOf(i).fileReplacements
            list == IF IsDefined(given) THEN Value(given) ELSE <<>>
            out == configOf(i).fileReplacements
        IN  /\ (list = <<>>) <=> (out = Undefined)
            /\ list # <<>> =>
                  /\ DOMAIN Value(out) = {join(ws, list[n].replace) : n \in DOMAIN list}
                  /\ \A n \in DOMAIN list :
                        LET same == {m \in DOMAIN list : list[m].replace = list[n].replace}
                            last == CHOOSE m \in same : \A k \in same : k <= m
                        IN  Value(out)[join(ws, list[n].replace)] = join(ws, list[last].with)

\* C5 amended: as C5, but each key is mapped to join(workspaceRoot, with) of
\* the last supplied pair whose replace path joins to that key (two
\* different replace strings can name the same file).
C5_LastPairWithThatKey ==
    \A i \in Invocations : Finished(i) =>
        LET ws == ctxOf(i).workspaceRoot
            given == optsOf(i).fileReplacements
            list == IF IsDefined(given) THEN Value(given) ELSE <<>>
            out == configOf(i).fileReplacements
        IN  /\ (list = <<>>) <=> (out = Undefined)
            /\ list # <<>> =>
                  /\ DOMAIN Value(out) = {join(ws, list[n].replace) : n \in DOMAIN list}
                  /\ \A n \in DOMAIN list :
                        LET same == {m \in DOMAIN list :
                                        join(ws, list[m].replace) = join(ws, list[n].replace)}
                            last == CHOOSE m \in same : \A k \in same : k <= m
                        IN  Value(out)[join(ws, list[n].replace)] = join(ws, list[last].with)

\* Two pairs with the same replace path and different with paths: one key,
\* mapped to the second pair's with path.
C5_Witness ==
    \E i \in Invocations :
        /\ Finished(i)
        /\ IsDefined(optsOf(i).fileReplacements)
        /\ LET list == Value(optsOf(i).fileReplacements)
           IN  /\ Len(list) = 2
               /\ list[1].replace = list[2].replace
               /\ list[1].with # list[2].with
               /\ Cardinality(DOMAIN Value(configOf(i).fileReplacements)) = 1
               /\ Value(configOf(i).fileReplacements)[join(ctxOf(i).workspaceRoot, list[1].replace)]
                      = join(ctxOf(i).workspaceRoot, list[2].with)

\* The path fields of C6 other than the index-file output: each is absolute
\* and equals join(root, raw value).
PathFieldsJoined(i) ==
    LET ws == ctxOf(i).workspaceRoot
        meta == ctxOf(i).projectMetadata
        opts == optsOf(i)
        cfg == configOf(i)
        pr == join(ws, IF IsDefined(meta.root) THEN Value(meta.root) ELSE EmptyString)
        psr == projectSourceRootOf(ws, meta)
    IN  /\ isAbsolute(ws)
        /\ cfg.entryPoints["main"] = join(ws, opts.main)
        /\ isAbsolute(cfg.entryPoints["main"])
        /\ "polyfills" \in DOMAIN cfg.entryPoints =>
              /\ cfg.entryPoints["polyfills"] = join(ws, opts.polyfills[1])
              /\ isAbsolute(cfg.entryPoints["polyfills"])
        /\ cfg.tsconfig = join(ws, opts.tsConfig) /\ isAbsolute(cfg.tsconfig)
        /\ cfg.outputPath = join(ws, opts.outputPath) /\ isAbsolute(cfg.outputPath)
        /\ cfg.projectRoot = pr /\ isAbsolute(cfg.projectRoot)
        /\ psr = join(ws, IF IsDefined(meta.sourceRoot) THEN Value(meta.sourceRoot)
                          ELSE Rel(<<"src">>))
        /\ isAbsolute(psr)
        /\ IsDefined(cfg.serviceWorkerOptions) =>
              /\ isAbsolute(Value(cfg.serviceWorkerOptions))
              /\ Value(cfg.serviceWorkerOptions) \in
                     {join(ws, IF IsDefined(opts.ngswConfigPath)
                               THEN Value(opts.ngswConfigPath) ELSE EmptyString),
                      join(pr, Rel(<<"ngsw-config.json">>))}
        /\ IsDefined(cfg.fileReplacements) =>
              \A k \in DOMAIN Value(cfg.fileReplacements) :
                  /\ isAbsolute(k)
                  /\ isAbsolute(Value(cfg.fileReplacements)[k])
                  /\ \E n \in DOMAIN Value(opts.fileReplacements) :
                        /\ k = join(ws, Value(opts.fileReplacements)[n].replace)
                        /\ Value(cfg.fileReplacements)[k] =
                               join(ws, Value(opts.fileReplacements)[n].with)
        /\ IsDefined(cfg.indexHtmlOptions) =>
              /\ Value(cfg.indexHtmlOptions).input = join(ws, Value(opts.index).input)
              /\ isAbsolute(Value(cfg.indexHtmlOptions).input)

\* C6 as stated: given an absolute workspaceRoot every path field of the
\* returned configuration is absolute and equals join(workspace root or
\* project root, raw value), the output path of the index-file descriptor
\* included.
C6_EveryPathFieldAbsolute ==
    \A i \in Invocations : Finished(i) =>
        /\ PathFieldsJoined(i)
        /\ IsDefined(configOf(i).indexHtmlOptions) =>
              LET output == Value(configOf(i).indexHtmlOptions).output
                  file == getIndexOutputFile(Value(optsOf(i).index))
              IN  /\ isAbsolute(output)
                  /\ output \in {join(ctxOf(i).workspaceRoot, file),
                                 join(configOf(i).projectRoot, file)}

\* C6 amended: given an absolute workspaceRoot, entryPoints.main,
\* entryPoints.polyfills, tsconfig, outputPath, projectRoot, the project
\* source root, the service-worker config path, the fileReplacements keys
\* and values and the index-file input are absolute and equal join(root,
\* raw value); the index-file output is the output file name as the
\* collaborator gives it, joined to nothing.
C6_PathFieldsAbsoluteButIndexOutput ==
    \A i \in Invocations : Finished(i) =>
        /\ PathFieldsJoined(i)
        /\ IsDefined(configOf(i).indexHtmlOptions) =>
              Value(configOf(i).indexHtmlOptions).output =
                  getIndexOutputFile(Value(optsOf(i).index))

\* A relative main with '.' and '..' and an index option: main and the index
\* input come out absolute, the index output stays a bare file name.
C6_Witness ==
    \E i \in Invocations :
        /\ Finished(i)
        /\ optsOf(i).main = Rel(<<".", "src", "..", "main.ts">>)
        /\ configOf(i).entryPoints["main"] = Abs(<<"ws", "main.ts">>)
        /\ IsDefined(configOf(i).indexHtmlOptions)
        /\ Value(configOf(i).indexHtmlOptions).input = Abs(<<"ws", "src", "index.html">>)
        /\ Value(configOf(i).indexHtmlOptions).output = Rel(<<"home.html">>)

\* An invocation whose metadata fetch resolved and whose rest has run.
Ran(i) == pc[i] \in {"done", "failed"} /\ ctxOf(i).metadataFetch = "resolves"

\* C7 as stated: with a config file located, a resolution failure other than
\* "module not found" aborts the call with that error: nothing is returned
\* and no warning replaces the failure.
C7_OtherResolutionErrorAborts ==
    \A i \in Invocations :
        (/\ Ran(i)
         /\ IsDefined(tailwindConfigurationPath[i])
         /\ resolveOutcome \notin {"resolved", "MODULE_NOT_FOUND"}) =>
            /\ pc[i] = "failed"
            /\ thrown[i] = Some(resolveOutcome)
            /\ returned[i] = Undefined
            /\ TailwindWarningsOf(i) = {}

\* C7 amended: with a config file located, every resolution failure, "module
\* not found" or any other error, is recovered: the call completes, the
\* framework is treated as absent and the warning is emitted; no resolution
\* error aborts the call.
C7_EveryResolutionErrorRecovered ==
    \A i \in Invocations :
        (/\ Ran(i)
         /\ IsDefined(tailwindConfigurationPath[i])
         /\ resolveOutcome # "resolved") =>
            /\ pc[i] = "done"
            /\ thrown[i] = Undefined
            /\ IsDefined(returned[i])
            /\ configOf(i).tailwindConfiguration = Undefined
            /\ Cardinality(TailwindWarningsOf(i)) = 1
            /\ resolveCalls[i] = 1

\* A located file and a resolution error that is not "module not found".
C7_Witness ==
    \E i \in Invocations :
        /\ Ran(i)
        /\ IsDefined(tailwindConfigurationPath[i])
        /\ resolveOutcome = "ERR_INVALID_PACKAGE_CONFIG"
        /\ pc[i] = "done"
        /\ Cardinality(TailwindWarningsOf(i)) = 1

NothingDone(i) ==
    /\ returned[i] = Undefined
    /\ warnings[i] = <<>>
    /\ existsSyncCalls[i] = <<>>
    /\ resolveCalls[i] = 0
    /\ tailwindConfigurationPath[i] = Undefined

\* C8: the metadata fetch comes first: while it is pending nothing has been
\* logged, probed, resolved or returned; if it rejects the call fails with
\* that error and still nothing has been logged, probed, resolved or
\* returned; whatever is logged, probed or resolved follows a resolved fetch.
C8_FetchFirst ==
    \A i \in Invocations :
        /\ pc[i] \in {"idle", "fetching"} => NothingDone(i) /\ thrown[i] = Undefined
        /\ (IsDefined(context[i]) /\ ctxOf(i).metadataFetch = "rejects") =>
              /\ pc[i] \in {"fetching", "failed"}
              /\ NothingDone(i)
              /\ pc[i] = "failed" => thrown[i] = Some("getProjectMetadata rejected")
        /\ ~NothingDone(i) => Ran(i)

\* A rejected fetch with a config file on disk and two polyfills given: the
\* call failed and neither the probe nor the warning happened.
C8_Witness ==
    \E i \in Invocations :
        /\ pc[i] = "failed"
        /\ ctxOf(i).metadataFetch = "rejects"
        /\ FileIn(ctxOf(i).workspaceRoot, "tailwind.config.js") \in fs
        /\ Len(optsOf(i).polyfills) = 2
        /\ NothingDone(i)

\* C10: serviceWorkerOptions is undefined unless the serviceWorker flag is
\* set, even with an ngswConfigPath; with the flag set it is
\* join(workspaceRoot, ngswConfigPath) for a non-empty ngswConfigPath and
\* join(projectRoot, 'ngsw-config.json') otherwise.
C10_ServiceWorkerOptions ==
    \A i \in Invocations : Finished(i) =>
        LET flag == optsOf(i).serviceWorker
            given == optsOf(i).ngswConfigPath
            out == configOf(i).serviceWorkerOptions
        IN  /\ flag \in {Undefined, Some(FALSE)} => out = Undefined
            /\ flag = Some(TRUE) =>
                  out = Some(IF IsDefined(given) /\ Value(given) # EmptyString
                             THEN join(ctxOf(i).workspaceRoot, Value(given))
                             ELSE FileIn(configOf(i).projectRoot, "ngsw-config.json"))

\* Flag set with an explicit path in a project whose root is not the
\* workspace root: the path is resolved against the workspace root.
C10_Witness ==
    \E i \in Invocations :
        /\ Finished(i)
        /\ optsOf(i).serviceWorker = Some(TRUE)
        /\ optsOf(i).ngswConfigPath = Some(Rel(<<"config", "ngsw.json">>))
        /\ configOf(i).projectRoot = Abs(<<"ws", "projects", "app">>)
        /\ configOf(i).serviceWorkerOptions = Some(Abs(<<"ws", "config", "ngsw.json">>))

\* What invocation i produces when it runs alone on the same context, raw
\* options, file system and resolver.
Independent(i) ==
    IF ctxOf(i).metadataFetch = "rejects"
    THEN NothingDone(i) /\ thrown[i] = Some("getProjectMetadata rejected")
    ELSE LET alone == normalizeAfterFetch(ctxOf(i), optsOf(i))
         IN  /\ returned[i] = alone.returned
             /\ thrown[i] = alone.thrown
             /\ warnings[i] = alone.warnings

====
